---------------------------- MODULE Spec2Model ----------------------------
(***************************************************************************)
(* BMP280 / BME280 sensor drivers (src/bmp280.py, src/bme280.py) over the  *)
(* I2C bus wrapper (src/i2c.py).                                           *)
(*                                                                         *)
(* One driver object is modelled together with the single caller that      *)
(* uses it.  Every public operation is split at its bus transactions: a    *)
(* transaction either returns data chosen by the device or raises          *)
(* I2CError, and the exception leaves the operation at that point.         *)
(***************************************************************************)
EXTENDS Integers, Sequences, FiniteSets, TLC

(***************************************************************************)
(* Bounds of the model.                                                    *)
(***************************************************************************)
\* number of calibration images (24 bytes at 0x88) the device may present
NumCalImages == 2
\* number of humidity calibration images (0xA1 and 0xE1..0xE7)
NumHumImages == 2
\* number of raw ADC samples the data registers may hold
NumSamples == 2

(***************************************************************************)
(* Exact arithmetic.  Python floats are IEEE doubles; every intermediate   *)
(* value of temperature() is a dyadic rational, so it is carried exactly   *)
(* as n / 2^e with n an arbitrary-precision integer.  The double result    *)
(* equals the exact one whenever the exact one has at most 53 significant  *)
(* bits.                                                                   *)
(***************************************************************************)
LimbBits == 15
Base == 2^LimbBits

\* an unset attribute or a missing value is the empty tuple, a value v is <<v>>
None == <<>>

RECURSIVE NatL(_)
\* limbs (least significant first, no leading zero limb) of a natural
NatL(n) == IF n = 0 THEN <<>> ELSE <<n % Base>> \o NatL(n \div Base)

RECURSIVE Trim(_)
Trim(a) == IF a = <<>> THEN <<>>
           ELSE IF a[Len(a)] = 0 THEN Trim(SubSeq(a, 1, Len(a) - 1)) ELSE a

Limb(a, i) == IF i <= Len(a) THEN a[i] ELSE 0

RECURSIVE AddL(_, _, _)
AddL(a, b, c) ==
    IF a = <<>> /\ b = <<>> THEN (IF c = 0 THEN <<>> ELSE <<c>>)
    ELSE LET x == Limb(a, 1) + Limb(b, 1) + c
         IN <<x % Base>> \o AddL(IF a = <<>> THEN a ELSE Tail(a),
                                 IF b = <<>> THEN b ELSE Tail(b), x \div Base)

RECURSIVE SubRaw(_, _, _)
\* a - b - borrow for a >= b, limb by limb
SubRaw(a, b, w) ==
    IF a = <<>> THEN <<>>
    ELSE LET x == a[1] - Limb(b, 1) - w
         IN <<x % Base>> \o SubRaw(Tail(a), IF b = <<>> THEN b ELSE Tail(b),
                                   IF x < 0 THEN 1 ELSE 0)

SubL(a, b) == Trim(SubRaw(a, b, 0))

RECURSIVE CmpFrom(_, _, _)
CmpFrom(a, b, i) ==
    IF i = 0 THEN 0
    ELSE IF a[i] > b[i] THEN 1
    ELSE IF a[i] < b[i] THEN -1
    ELSE CmpFrom(a, b, i - 1)

\* -1, 0, 1 as a < b, a = b, a > b
CmpL(a, b) ==
    IF Len(a) > Len(b) THEN 1
    ELSE IF Len(a) < Len(b) THEN -1
    ELSE CmpFrom(a, b, Len(a))

RECURSIVE MulSmallL(_, _, _)
MulSmallL(a, k, c) ==
    IF a = <<>> THEN (IF c = 0 THEN <<>> ELSE <<c>>)
    ELSE LET p == a[1] * k + c
         IN <<p % Base>> \o MulSmallL(Tail(a), k, p \div Base)

RECURSIVE MulL(_, _)
MulL(a, b) ==
    IF a = <<>> \/ b = <<>> THEN <<>>
    ELSE LET rest == MulL(a, Tail(b))
         IN AddL(MulSmallL(a, b[1], 0),
                 IF rest = <<>> THEN <<>> ELSE <<0>> \o rest, 0)

\* floor(a / 2)
HalfL(a) ==
    Trim([i \in 1..Len(a) |-> a[i] \div 2 + (Limb(a, i + 1) % 2) * (Base \div 2)])

IsEvenL(a) == a = <<>> \/ a[1] % 2 = 0

RECURSIVE ShrL(_, _)
\* floor(a / 2^k): whole limbs first, then bit by bit
ShrL(a, k) ==
    IF k = 0 \/ a = <<>> THEN a
    ELSE IF k >= LimbBits THEN ShrL(Tail(a), k - LimbBits)
    ELSE ShrL(HalfL(a), k - 1)

\* signed integers: s is the sign (-1, 0, 1), m the limbs of the magnitude
BigZero == [s |-> 0, m |-> <<>>]
BigInt(i) == IF i = 0 THEN BigZero
             ELSE IF i > 0 THEN [s |-> 1, m |-> NatL(i)]
             ELSE [s |-> -1, m |-> NatL(-i)]
BigNeg(x) == [s |-> -x.s, m |-> x.m]
BigAdd(x, y) ==
    IF x.s = 0 THEN y
    ELSE IF y.s = 0 THEN x
    ELSE IF x.s = y.s THEN [s |-> x.s, m |-> AddL(x.m, y.m, 0)]
    ELSE LET c == CmpL(x.m, y.m)
         IN IF c = 0 THEN BigZero
            ELSE IF c > 0 THEN [s |-> x.s, m |-> SubL(x.m, y.m)]
            ELSE [s |-> y.s, m |-> SubL(y.m, x.m)]
BigMul(x, y) ==
    IF x.s = 0 \/ y.s = 0 THEN BigZero
    ELSE [s |-> x.s * y.s,
          m |-> IF Len(x.m) >= Len(y.m) THEN MulL(x.m, y.m) ELSE MulL(y.m, x.m)]

\* a * 2^k: whole limbs of zeros, then the remaining bits
ShlL(a, k) ==
    IF a = <<>> THEN a
    ELSE [i \in 1..(k \div LimbBits) |-> 0] \o MulSmallL(a, 2 ^ (k % LimbBits), 0)

\* dyadic rationals n / 2^e in lowest terms (n odd, or e = 0)
RECURSIVE DyNorm(_, _)
DyNorm(n, e) ==
    IF n.s = 0 THEN [n |-> BigZero, e |-> 0]
    ELSE IF e >= LimbBits /\ n.m[1] = 0
         THEN DyNorm([s |-> n.s, m |-> Tail(n.m)], e - LimbBits)
    ELSE IF e > 0 /\ IsEvenL(n.m) THEN DyNorm([s |-> n.s, m |-> HalfL(n.m)], e - 1)
    ELSE [n |-> n, e |-> e]

Dy(i) == [n |-> BigInt(i), e |-> 0]
\* x / 2^k
DyShr(x, k) == DyNorm(x.n, x.e + k)
DyMul(x, y) == DyNorm(BigMul(x.n, y.n), x.e + y.e)
DyScale(x, e) ==
    \* numerator of x over the denominator 2^e, for e >= x.e
    IF e = x.e THEN x.n ELSE [s |-> x.n.s, m |-> ShlL(x.n.m, e - x.e)]
DyAdd(x, y) ==
    LET e == IF x.e > y.e THEN x.e ELSE y.e
    IN DyNorm(BigAdd(DyScale(x, e), DyScale(y, e)), e)
DySub(x, y) == DyAdd(x, [n |-> BigNeg(y.n), e |-> y.e])

RECURSIVE LimbsToInt(_)
LimbsToInt(a) == IF a = <<>> THEN 0 ELSE a[1] + Base * LimbsToInt(Tail(a))

\* the integer nearest to x (halves away from zero), for results below 2^31
DyRound(x) ==
    LET twice == AddL(ShrL(MulSmallL(x.n.m, 2, 0), x.e), <<1>>, 0)
    IN x.n.s * LimbsToInt(HalfL(twice))


(***************************************************************************)
(* Registers and constants of the chips.                                   *)
(***************************************************************************)
I2C_ADDRESS == 119
I2C_ADDRESS2 == 118
CALIBRATION == 136
ID == 208
RESET == 224
STATUS == 243
CTRL_MEAS == 244
CONFIG == 245
PRESS == 247
TEMP == 250
SOFT_RESET == 182
CALIBRATION_H1 == 161
CALIBRATION_HX == 225
CTRL_HUM == 242
HUM == 253

CoefTP == {"T1", "T2", "T3", "P1", "P2", "P3", "P4", "P5", "P6", "P7", "P8", "P9"}
CoefH == {"H1", "H2", "H3", "H4", "H5", "H6"}
Coefs == CoefTP \cup CoefH

(***************************************************************************)
(* What the device may answer.  Image 0 is the calibration of the vendor   *)
(* datasheet's worked example (T1 = 27504, T2 = 26435, T3 = -1000,         *)
(* P1 = 36477, P2 = -10685, ...), image 1 is all zero, image 2 all 0xFF,   *)
(* further images are derived from the datasheet one.                      *)
(***************************************************************************)
DatasheetTP ==
    <<112, 107, 67, 103, 24, 252, 125, 142, 67, 214, 208, 11,
      39, 11, 140, 0, 249, 255, 140, 60, 248, 198, 112, 23>>

CalImage(k) ==
    IF k = 0 THEN DatasheetTP
    ELSE IF k = 1 THEN [i \in 1..24 |-> 0]
    ELSE IF k = 2 THEN [i \in 1..24 |-> 255]
    ELSE [i \in 1..24 |-> (DatasheetTP[i] + 37 * k * i) % 256]

CalImages == {CalImage(k) : k \in 0..(NumCalImages - 1)}

\* H1 = 75; H2 = 363, H3 = 0, H4 = 313, H5 = 50, H6 = 30
DatasheetH1 == <<75>>
DatasheetHX == <<107, 1, 0, 19, 41, 3, 30>>

HumImageH1(k) == IF k = 0 THEN DatasheetH1 ELSE <<(75 + 180 * k) % 256>>
HumImageHX(k) ==
    IF k = 0 THEN DatasheetHX
    ELSE [i \in 1..7 |-> (DatasheetHX[i] + 256 - k * (i + 3)) % 256]

HumImagesH1 == {HumImageH1(k) : k \in 0..(NumHumImages - 1)}
HumImagesHX == {HumImageHX(k) : k \in 0..(NumHumImages - 1)}

\* sample 0: the datasheet's adc_T = 519888; sample 1: adc_P = 415148
RawSample(k) ==
    IF k = 0 THEN <<126, 237, 0>>
    ELSE IF k = 1 THEN <<101, 90, 192>>
    ELSE <<(255 * k) % 256, (77 * k) % 256, (16 * k + 15) % 256>>

RawSamples == {RawSample(k) : k \in 0..(NumSamples - 1)}
HumSamples == {<<s[1], s[2]>> : s \in RawSamples}

\* bytes answered by the ID, STATUS, CTRL_MEAS, CONFIG and CTRL_HUM registers
ByteVals == {9, 88, 96}

(***************************************************************************)
(* ctypes conversions (c_ushort, c_short, c_ubyte, c_byte): the value      *)
(* modulo the width, read as unsigned or as two's complement.              *)
(***************************************************************************)
c_ushort(x) == x % 65536
\* fault: c_ushort used where c_short is meant
c_short_unsigned(x) == x % 65536
c_short(x) == LET u == x % 65536 IN IF u >= 32768 THEN u - 65536 ELSE u
c_ubyte(x) == x % 256
c_byte(x) == LET u == x % 256 IN IF u >= 128 THEN u - 256 ELSE u

\* (data[hi] << 8) + data[lo], 0-based indices as in the source
Word(data, hi, lo) == data[hi + 1] * 256 + data[lo + 1]

\* fault: dig_P1 decoded with c_short
DecodeP1Signed(data) == c_short(Word(data, 7, 6))

\* BMP280.calibrate: the twelve coefficients decoded from the 24-byte block
DecodeP1(data) == c_ushort(Word(data, 7, 6))

DecodeCoefTP(c, data) ==
        CASE c = "T1" -> c_ushort(Word(data, 1, 0))
          [] c = "T2" -> c_short(Word(data, 3, 2))
          [] c = "T3" -> c_short(Word(data, 5, 4))
          [] c = "P1" -> DecodeP1(data)
          [] c = "P2" -> c_short(Word(data, 9, 8))
          [] c = "P3" -> c_short(Word(data, 11, 10))
          [] c = "P4" -> c_short(Word(data, 13, 12))
          [] c = "P5" -> c_short(Word(data, 15, 14))
          [] c = "P6" -> c_short(Word(data, 17, 16))
          [] c = "P7" -> c_short(Word(data, 19, 18))
          [] c = "P8" -> c_short(Word(data, 21, 20))
          [] c = "P9" -> c_short(Word(data, 23, 22))

DecodeTP(data) == [c \in CoefTP |-> DecodeCoefTP(c, data)]

\* BME280.calibrate: H1 from the byte at 0xA1, H2..H6 from the block at 0xE1
DecodeCoefH(c, dataH1, dataHX) ==
        CASE c = "H1" -> c_ubyte(dataH1[1])
          [] c = "H2" -> c_short(Word(dataHX, 1, 0))
          [] c = "H3" -> c_ubyte(dataHX[3])
          [] c = "H4" -> c_short(dataHX[4] * 16 + (dataHX[5] % 16))
          [] c = "H5" -> c_short(dataHX[6] * 16 + ((dataHX[5] \div 16) % 16))
          [] c = "H6" -> c_byte(dataHX[7])

DecodeH(dataH1, dataHX) == [c \in CoefH |-> DecodeCoefH(c, dataH1, dataHX)]

\* the assignments run in the order of the source; an index past the end of
\* the list the bus returned raises IndexError, and the assignments before
\* that statement have been made
CoefOrder == <<"T1", "T2", "T3", "P1", "P2", "P3", "P4", "P5", "P6", "P7", "P8", "P9">>

AssignedTP(data) == {CoefOrder[k] : k \in {j \in 1..12 : 2 * j <= Len(data)}}

\* the highest index (0-based) each humidity statement reads in dataHX
NeedsHX == [H2 |-> 1, H3 |-> 2, H4 |-> 4, H5 |-> 5, H6 |-> 6]

AssignedH(dataH1, dataHX) ==
    IF Len(dataH1) < 1 THEN {}
    ELSE {"H1"} \cup {c \in DOMAIN NeedsHX : NeedsHX[c] < Len(dataHX)}

CompleteTP(data) == AssignedTP(data) = CoefTP
CompleteH(dataH1, dataHX) == AssignedH(dataH1, dataHX) = CoefH

\* fault: the low byte added without its shift
Raw20NoShift(data) == data[1] * 4096 + data[2] * 16 + data[3]

\* raw_pressure / raw_temperature: (data[0] << 12) + (data[1] << 4) + (data[2] >> 4)
Raw20(data) == data[1] * 4096 + data[2] * 16 + (data[3] \div 16)
\* raw_humidity: (data[0] << 8) + data[1]
Raw16(data) == data[1] * 256 + data[2]

(***************************************************************************)
(* State.                                                                  *)
(***************************************************************************)
VARIABLES
    variant,      \* class of the object: "none", "BMP280" or "BME280"
    usable,       \* the constructor has returned the object to the caller
    addr,         \* self.addr
    dig,          \* self.dig_T1 .. self.dig_H6: None while the attribute is unset
    t_fine,       \* self.t_fine: None or <<value>>
    pc,           \* position of the caller in the operation it runs
    op,           \* the public operation that is running
    upd,          \* its update_temperature argument
    loc,          \* its local variables
    busLog,       \* the bus transactions it has attempted so far
    result,       \* what it returns or raises
    tfAtCall,     \* history: t_fine when the running operation was called
    everTemp,     \* history: a temperature computation has completed on the object
    grp,          \* history: per coefficient group, whether the latest calibrate()
                  \* call that assigned anything set it ("cur") or an earlier one ("old")
    resetPending, \* history: reset() has completed and no calibrate() since
    prev,         \* history: the temperature() call that returned last, while no
                  \* other call has started since
    overlap,      \* history: the second caller has been inside a call of its own
                  \* at some moment of the running operation
    writer,       \* history: the caller (1 or 2) whose temperature() wrote t_fine
                  \* last, 0 while unset
    meas,         \* the chip: conversions completed (data register updates)
    pc2,          \* position of a second caller using the same object
    pcf,          \* a PCF8574 object and the expander it drives
    ina,          \* an INA219 object and the CONFIG register of its chip
    sn            \* an SN3218 object and the LED-enable registers of its chip

vars == <<variant, usable, addr, dig, t_fine, pc, op, upd, loc, busLog, result,
          tfAtCall, everTemp, grp, resetPending, prev, overlap, writer, meas, pc2,
          pcf, ina, sn>>

objVars == <<variant, usable, addr, dig, t_fine>>
histVars == <<everTemp, grp, resetPending, writer>>
\* the objects of the other chip drivers: no sensor operation touches them
otherChips == <<pcf, ina, sn>>
envVars == <<meas, pc2, otherChips>>
\* everything that belongs to the sensor object and its callers
sensorVars == <<objVars, pc, op, upd, loc, busLog, result, tfAtCall, prev, overlap,
                histVars, meas, pc2>>

NoLoc == [data |-> <<>>, dataH1 |-> <<>>, dataHX |-> <<>>, adc_T |-> None, adc |-> None,
          reg |-> 0, val |-> 0, to |-> 0, po |-> 0, mode |-> "",
          \* the arguments (inactive_time, filter_constant, spi_3wire) of set_config
          args |-> <<>>,
          \* the byte a register property has read
          byte |-> None,
          \* history: the conversion count of the chip at the read of adc_T and of adc
          seenT |-> None, seen |-> None]
NoResult == [kind |-> "none", exc |-> "", val |-> <<>>, tf |-> None]
Return(v) == [kind |-> "return", exc |-> "", val |-> v, tf |-> None]
Raise(e) == [kind |-> "raise", exc |-> e, val |-> <<>>, tf |-> None]

NoDig == [c \in Coefs |-> None]
D(c) == dig[c][1]

\* PCF8574.__init__: self._pins = [1] * 8; nothing has been sent to the chip.
\* call is the history of the last call: its name, arguments and whether
\* its bus transaction succeeded; flushed tells that it sent pins which a
\* write(..., update=False) had changed in the buffer only
NoCall == [name |-> "none", pin |-> 0, val |-> 0, update |-> FALSE, ok |-> TRUE,
           flushed |-> FALSE]
NewPCF8574 == [pins |-> [i \in 1..8 |-> 1], wire |-> None, pending |-> FALSE,
               call |-> NoCall]

\* INA219.__init__ / _init_params: the defaults; config is the word the
\* CONFIG register was last written with (None: not written by the driver),
\* synced the history flag "_config_set has written CONFIG since the
\* attributes last changed"
NewINA219 == [mode |-> 7, shuntADC |-> 12, busADC |-> 12, gain |-> 8, vrange |-> 32,
              config |-> None, synced |-> FALSE]

\* SN3218.__init__: self._channel_enable = [0] * 19 (entry 0 is unused);
\* leds are the three bytes last written to the registers 0x13..0x15
\* (None: not written yet); call is the history of the last call: its name,
\* its channel argument, and whether its block write reached the chip
NewSN3218 == [channel_enable |-> [i \in 1..19 |-> 0], leds |-> None,
              call |-> [name |-> "none", channel |-> 0, sent |-> FALSE]]

Init ==
    /\ variant = "none"
    /\ usable = FALSE
    /\ addr = I2C_ADDRESS
    /\ dig = NoDig
    /\ t_fine = None
    /\ pc = "idle"
    /\ op = "none"
    /\ upd = FALSE
    /\ loc = NoLoc
    /\ busLog = <<>>
    /\ result = NoResult
    /\ tfAtCall = None
    /\ everTemp = FALSE
    /\ grp = [g \in {"TP", "H"} |-> "unset"]
    /\ resetPending = FALSE
    /\ prev = None
    /\ overlap = FALSE
    /\ writer = 0
    /\ meas = 0
    /\ pc2 = "idle"
    /\ pcf = NewPCF8574
    /\ ina = NewINA219
    /\ sn = NewSN3218

(***************************************************************************)
(* The bus (I2CBus): each transaction is attempted once; an OSError of the *)
(* kernel interface is re-raised as I2CError.                              *)
(***************************************************************************)
Xfer(rw, reg, n, ok) == [rw |-> rw, addr |-> addr, reg |-> reg, n |-> n, ok |-> ok]
Logged(rw, reg, n, ok) == busLog' = Append(busLog, Xfer(rw, reg, n, ok))

\* fault: a failed transaction is attempted once more before the error is raised
FailsRetried(rw, reg, n) ==
    /\ Logged(rw, reg, n, FALSE)
    /\ IF \A i \in DOMAIN busLog : busLog[i].ok
       THEN pc' = pc /\ result' = result
       ELSE pc' = "ret" /\ result' = Raise("I2CError")
    /\ UNCHANGED <<objVars, op, upd, loc, tfAtCall, prev, overlap, envVars, histVars>>

\* fault: a failed transaction puts t_fine back to its value at the call
FailsRollsBack(rw, reg, n) ==
    /\ Logged(rw, reg, n, FALSE)
    /\ result' = Raise("I2CError")
    /\ pc' = "ret"
    /\ t_fine' = tfAtCall
    /\ UNCHANGED <<variant, usable, addr, dig, op, upd, loc, tfAtCall, prev, overlap,
                   envVars, histVars>>

\* an exception leaves the operation: nothing else changes
Fails(rw, reg, n) ==
    /\ Logged(rw, reg, n, FALSE)
    /\ result' = Raise("I2CError")
    /\ pc' = "ret"
    /\ UNCHANGED <<objVars, op, upd, loc, tfAtCall, prev, overlap, envVars, histVars>>

\* a public operation starts on a constructed object
Call(name, u, l, first, res) ==
    /\ usable
    /\ pc = "idle"
    /\ op' = name
    /\ upd' = u
    /\ loc' = l
    /\ pc' = first
    /\ busLog' = <<>>
    /\ result' = res
    /\ tfAtCall' = t_fine
    /\ prev' = IF name = "temperature" THEN prev ELSE None
    /\ overlap' = (pc2 # "idle")
    /\ UNCHANGED envVars

(***************************************************************************)
(* Construction and calibration.                                           *)
(***************************************************************************)
\* a calibrate() call has assigned the T/P group: what an earlier call set is old
Aged(g) == IF g = "cur" THEN "old" ELSE g

\* fault: t_fine initialised to 0.0
InitialTFineZero == <<Dy(0)>>

\* self.t_fine = None
InitialTFine == None

\* fault: __init__ returns without calling calibrate()
InitWithoutCalibrate ==
    /\ pc' = "ret"
    /\ result' = Return(<<>>)

\* self.calibrate(), the last statement of __init__
InitCalibrate ==
    /\ pc' = "cal_TP"
    /\ result' = NoResult

\* BMP280.__init__ / BME280.__init__ up to the call of calibrate()
BMP280_init ==
    /\ variant = "none"
    /\ pc = "idle"
    /\ \E cls \in {"BMP280", "BME280"}, alternativeAddress \in BOOLEAN, busOk \in BOOLEAN :
          /\ variant' = cls
          /\ op' = "__init__"
          /\ busLog' = <<>>
          /\ IF busOk
             THEN /\ addr' = IF alternativeAddress THEN I2C_ADDRESS2 ELSE I2C_ADDRESS
                  /\ InitCalibrate
             ELSE \* I2CBus(bus) raises: no attribute has been set
                  /\ addr' = addr
                  /\ pc' = "ret"
                  /\ result' = Raise("I2CError")
    /\ t_fine' = InitialTFine
    /\ UNCHANGED <<usable, dig, upd, loc, tfAtCall, prev, overlap, envVars, histVars>>

\* fault: calibrate() starts over as __init__ does, with t_fine = None
calibrate_clears_t_fine ==
    /\ Call("calibrate", FALSE, NoLoc, "cal_TP", NoResult)
    /\ t_fine' = None
    /\ UNCHANGED <<variant, usable, addr, dig, histVars>>

\* BMP280.calibrate / BME280.calibrate called by the user
calibrate ==
    /\ Call("calibrate", FALSE, NoLoc, "cal_TP", NoResult)
    /\ UNCHANGED <<objVars, histVars>>

\* the end of a calibrate() call that raised nothing
CalDone ==
    /\ result' = Return(<<>>)
    /\ pc' = "ret"
    /\ resetPending' = FALSE

\* BMP280.calibrate: the block read at 0x88 and the twelve assignments
CalReadTP(images) ==
    /\ pc = "cal_TP"
    /\ \/ /\ Fails("r", CALIBRATION, 24)
       \/ \E data \in images :
             /\ Logged("r", CALIBRATION, 24, TRUE)
             /\ dig' = [c \in Coefs |-> IF c \in AssignedTP(data)
                                         THEN <<DecodeCoefTP(c, data)>> ELSE dig[c]]
             /\ grp' = [TP |-> "cur", H |-> Aged(grp["H"])]
             /\ IF ~CompleteTP(data)
                THEN /\ pc' = "ret"
                     /\ result' = Raise("IndexError")
                     /\ UNCHANGED resetPending
                ELSE IF variant = "BME280"
                THEN /\ pc' = "cal_H1"
                     /\ UNCHANGED <<result, resetPending>>
                ELSE CalDone
             /\ loc' = [loc EXCEPT !.data = data]
             /\ UNCHANGED <<variant, usable, addr, t_fine, op, upd, tfAtCall, prev, overlap,
                            envVars, everTemp, writer>>

calibrate_TP == CalReadTP(CalImages)

\* BME280.calibrate: the byte read at 0xA1
CalReadH1(images) ==
    /\ pc = "cal_H1"
    /\ \/ Fails("r", CALIBRATION_H1, 1)
       \/ \E data \in images :
             /\ Logged("r", CALIBRATION_H1, 1, TRUE)
             /\ loc' = [loc EXCEPT !.dataH1 = data]
             /\ pc' = "cal_HX"
             /\ UNCHANGED <<objVars, op, upd, result, tfAtCall, prev, overlap, envVars, histVars>>

calibrate_H1 == CalReadH1(HumImagesH1)

\* BME280.calibrate: the block read at 0xE1 and the six assignments
CalReadHX(images) ==
    /\ pc = "cal_HX"
    /\ \/ Fails("r", CALIBRATION_HX, 7)
       \/ \E data \in images :
             /\ Logged("r", CALIBRATION_HX, 7, TRUE)
             /\ dig' = [c \in Coefs |-> IF c \in AssignedH(loc.dataH1, data)
                                         THEN <<DecodeCoefH(c, loc.dataH1, data)>>
                                         ELSE dig[c]]
             /\ grp' = [grp EXCEPT !["H"] = "cur"]
             /\ IF CompleteH(loc.dataH1, data)
                THEN CalDone
                ELSE /\ pc' = "ret"
                     /\ result' = Raise("IndexError")
                     /\ UNCHANGED resetPending
             /\ loc' = [loc EXCEPT !.dataHX = data]
             /\ UNCHANGED <<variant, usable, addr, t_fine, op, upd, tfAtCall, prev, overlap,
                            envVars, everTemp, writer>>

calibrate_HX == CalReadHX(HumImagesHX)

(***************************************************************************)
(* Register access: reset, id, status and the raw register properties.     *)
(***************************************************************************)
\* fault: reset() also clears t_fine
reset_clears_t_fine ==
    /\ Call("reset", FALSE, [NoLoc EXCEPT !.reg = RESET, !.val = SOFT_RESET],
            "reg_write", NoResult)
    /\ t_fine' = None
    /\ UNCHANGED <<variant, usable, addr, dig, histVars>>

\* fault: reset() reloads the calibration instead of writing SOFT_RESET
reset_recalibrates ==
    /\ Call("reset", FALSE, [NoLoc EXCEPT !.reg = RESET, !.val = SOFT_RESET],
            "cal_TP", NoResult)
    /\ UNCHANGED <<objVars, histVars>>

\* BMP280.reset: one write of SOFT_RESET to the RESET register
reset ==
    /\ Call("reset", FALSE, [NoLoc EXCEPT !.reg = RESET, !.val = SOFT_RESET],
            "reg_write", NoResult)
    /\ UNCHANGED <<objVars, histVars>>

\* _bus.write_byte_data of reset() and of _config_set()
reg_write ==
    /\ pc = "reg_write"
    /\ \/ Fails("w", loc.reg, loc.val)
       \/ /\ Logged("w", loc.reg, loc.val, TRUE)
          /\ result' = Return(<<>>)
          /\ pc' = "ret"
          /\ resetPending' = (resetPending \/ op = "reset")
          /\ UNCHANGED <<objVars, op, upd, loc, tfAtCall, prev, overlap, envVars, everTemp,
                         writer, grp>>

\* the properties id, status, ctrl_meas, config (and ctrl_hum on BME280)
ByteRegs ==
    [id |-> ID, status |-> STATUS, ctrl_meas |-> CTRL_MEAS, config |-> CONFIG,
     ctrl_hum |-> CTRL_HUM]

byte_property ==
    /\ \E name \in DOMAIN ByteRegs :
          /\ name = "ctrl_hum" => variant = "BME280"
          /\ Call(name, FALSE, [NoLoc EXCEPT !.reg = ByteRegs[name]], "byte_read", NoResult)
    /\ UNCHANGED <<objVars, histVars>>

\* what the property returns for the byte b read from its register
ByteResult(name, cls, b) ==
    IF name = "status" THEN Return(<<(b \div 8) % 2, b % 2>>)
    ELSE IF name = "id" /\ cls = "BME280"
         THEN Raise("TypeError")   \* super().id() calls the int the property returned
         ELSE Return(<<b>>)

byte_read ==
    /\ pc = "byte_read"
    /\ \/ Fails("r", loc.reg, 1)
       \/ \E b \in ByteVals :
             /\ Logged("r", loc.reg, 1, TRUE)
             /\ result' = ByteResult(op, variant, b)
             /\ loc' = [loc EXCEPT !.byte = <<b>>]
             /\ pc' = "ret"
             /\ UNCHANGED <<objVars, op, upd, tfAtCall, prev, overlap, envVars, histVars>>

(***************************************************************************)
(* set_acquisition_options and set_config.                                 *)
(***************************************************************************)
OversamplingArgs == {16, 3}
ModeArgs == {"normal", "bogus"}
InactiveArgs == {63, 2000, 20, 7}
FilterArgs == {16, 3}

\* the if/elif chains: the register field, or -1 where the chain raises
Oversampling(v) ==
    CASE v = 0 -> 0 [] v = 1 -> 1 [] v = 2 -> 2 [] v = 4 -> 3 [] v = 8 -> 4
      [] v = 16 -> 5 [] OTHER -> -1

Mode(m) ==
    IF m \in {"None", "0", "sleep"} THEN 0
    ELSE IF m \in {"1", "forced"} THEN 1
    ELSE IF m \in {"2", "3", "normal"} THEN 3
    ELSE -1

CtrlMeasValid(l) ==
    Oversampling(l.to) >= 0 /\ Oversampling(l.po) >= 0 /\ Mode(l.mode) >= 0
CtrlMeasData(l) == Oversampling(l.to) * 32 + Oversampling(l.po) * 4 + Mode(l.mode)

set_acquisition_options ==
    /\ \E to \in OversamplingArgs, po \in OversamplingArgs, mode \in ModeArgs,
          hoGiven \in BOOLEAN, ho \in OversamplingArgs :
          LET l == [NoLoc EXCEPT !.to = to, !.po = po, !.mode = mode,
                                 !.val = IF hoGiven THEN Oversampling(ho) % 8 ELSE 0]
          IN /\ hoGiven => variant = "BME280"
             /\ IF hoGiven
                THEN IF Oversampling(ho) < 0
                     THEN Call("set_acquisition_options", FALSE, l, "ret",
                               Raise("BMP280Error"))
                     ELSE Call("set_acquisition_options", FALSE, l, "sao_hum", NoResult)
                ELSE IF ~CtrlMeasValid(l)
                     THEN Call("set_acquisition_options", FALSE, l, "ret",
                               Raise("BMP280Error"))
                     ELSE Call("set_acquisition_options", FALSE, l, "sao_meas", NoResult)
    /\ UNCHANGED <<objVars, histVars>>

\* BME280: _ctrl_hum_set, then the checks of BMP280.set_acquisition_options
ctrl_hum_set ==
    /\ pc = "sao_hum"
    /\ \/ Fails("w", CTRL_HUM, loc.val)
       \/ /\ Logged("w", CTRL_HUM, loc.val, TRUE)
          /\ IF CtrlMeasValid(loc)
             THEN pc' = "sao_meas" /\ result' = result
             ELSE pc' = "ret" /\ result' = Raise("BMP280Error")
          /\ UNCHANGED <<objVars, op, upd, loc, tfAtCall, prev, overlap, envVars, histVars>>

ctrl_meas_set ==
    /\ pc = "sao_meas"
    /\ \/ Fails("w", CTRL_MEAS, CtrlMeasData(loc))
       \/ /\ Logged("w", CTRL_MEAS, CtrlMeasData(loc), TRUE)
          /\ result' = Return(<<>>)
          /\ pc' = "ret"
          /\ UNCHANGED <<objVars, op, upd, loc, tfAtCall, prev, overlap, envVars, histVars>>

\* the standby field for inactive_time, or -1 where set_config raises
Standby(cls, it) ==
    IF cls = "BMP280"
    THEN CASE it \in {0, 1} -> 0 [] it = 63 -> 1 [] it = 125 -> 2 [] it = 250 -> 3
           [] it = 500 -> 4 [] it = 1000 -> 5 [] it = 2000 -> 6 [] it = 4000 -> 7
           [] OTHER -> -1
    ELSE CASE it \in {0, 1} -> 0 [] it = 63 -> 1 [] it = 125 -> 2 [] it = 250 -> 3
           [] it = 500 -> 4 [] it = 1000 -> 5 [] it = 10 -> 6 [] it = 20 -> 7
           [] OTHER -> -1

Filter(fc) ==
    CASE fc \in {0, 1} -> 0 [] fc = 2 -> 1 [] fc = 4 -> 2 [] fc = 8 -> 3
      [] fc = 16 -> 4 [] OTHER -> -1

\* _set_config_internal(self, t_sb, filter_constant, spi_3wire) called with
\* the positional arguments args: the exception it raises ("" for none) and
\* the byte it writes to CONFIG
SetConfigInternal(args) ==
    IF Len(args) # 3 THEN [exc |-> "TypeError", data |-> 0]
    ELSE IF Filter(args[2]) < 0 THEN [exc |-> "BMP280Error", data |-> 0]
    ELSE [exc |-> "", data |-> args[1] * 32 + Filter(args[2]) * 4 + args[3]]

\* set_config passes (t_sb, inactive_time, filter_constant, spi_3wire)
set_config ==
    /\ \E it \in InactiveArgs, fc \in FilterArgs, spi_3wire \in {0, 1} :
          LET t_sb == Standby(variant, it)
              inner == SetConfigInternal(<<t_sb, it, fc, spi_3wire>>)
              l == [NoLoc EXCEPT !.reg = CONFIG, !.val = inner.data,
                                 !.args = <<it, fc, spi_3wire>>]
          IN IF t_sb < 0 THEN Call("set_config", FALSE, l, "ret", Raise("BMP280Error"))
             ELSE IF inner.exc # "" THEN Call("set_config", FALSE, l, "ret", Raise(inner.exc))
             ELSE Call("set_config", FALSE, l, "reg_write", NoResult)
    /\ UNCHANGED <<objVars, histVars>>

(***************************************************************************)
(* Measurements.                                                           *)
(***************************************************************************)
\* fault: var2 left out of the sum
TFineNoVar2(adc_T, T1, T2, T3) ==
    DyMul(DySub(DyShr(Dy(adc_T), 14), DyShr(Dy(T1), 10)), Dy(T2))

\* temperature(): var1 + var2 for the raw sample adc_T
TFine(adc_T, T1, T2, T3) ==
    LET var1 == DyMul(DySub(DyShr(Dy(adc_T), 14), DyShr(Dy(T1), 10)), Dy(T2))
        x == DySub(DyShr(Dy(adc_T), 17), DyShr(Dy(T1), 13))
        var2 == DyMul(DyMul(x, x), Dy(T3))
    IN DyAdd(var1, var2)

\* round((var1 + var2) / 5120.0, 2), in hundredths of a degree (the exact
\* quotient rounded to the nearest hundredth)
TemperatureValue(tf) == DyRound(DyShr(DyMul(tf, Dy(5)), 8))

\* fault: t_fine assigned only while it is None
StoreTFineIfUnset(old, new) == IF old = None THEN <<new>> ELSE old

\* fault: t_fine smoothed with the value it held
StoreTFineSmoothed(old, new) == IF old = None THEN <<new>> ELSE <<DyShr(DyAdd(old[1], new), 1)>>

\* self.t_fine = (var1 + var2)
StoreTFine(old, new) == <<new>>

\* fault: the flag ignored, the refresh made only while t_fine is unset
NeedsRefreshUnsetOnly(tf, update_temperature) == tf = None

\* faults: the test of t_fine dropped; the refresh made unconditional
NeedsRefreshFlagOnly(tf, update_temperature) == update_temperature
NeedsRefreshAlways(tf, update_temperature) == TRUE

\* (self.t_fine is None) or update_temperature
NeedsRefresh(tf, update_temperature) == tf = None \/ update_temperature

\* the value pressure() / humidity() returns, carried as what the
\* compensation chain reads: the raw sample and t_fine (and the coefficients
\* of the object at that moment)
Compensated(adc, tf) == [kind |-> "return", exc |-> "", val |-> adc, tf |-> tf]

raw_read_call ==
    /\ \E name \in {"raw_temperature", "raw_pressure", "raw_humidity"} :
          /\ name = "raw_humidity" => variant = "BME280"
          /\ Call(name, FALSE,
                  [NoLoc EXCEPT !.reg = CASE name = "raw_temperature" -> TEMP
                                          [] name = "raw_pressure" -> PRESS
                                          [] OTHER -> HUM],
                  "raw_read", NoResult)
    /\ UNCHANGED <<objVars, histVars>>

\* raw_temperature(), raw_pressure(), raw_humidity() called by the user
RawRead(samples3, samples2) ==
    /\ pc = "raw_read"
    /\ LET n == IF loc.reg = HUM THEN 2 ELSE 3
       IN \/ Fails("r", loc.reg, n)
          \/ /\ Logged("r", loc.reg, n, TRUE)
             /\ \/ /\ n = 3
                   /\ \E data \in samples3 :
                         /\ result' = Return(<<Raw20(data)>>)
                         /\ loc' = [loc EXCEPT !.data = data]
                \/ /\ n = 2
                   /\ \E data \in samples2 :
                         /\ result' = Return(<<Raw16(data)>>)
                         /\ loc' = [loc EXCEPT !.data = data]
             /\ pc' = "ret"
             /\ UNCHANGED <<objVars, op, upd, tfAtCall, prev, overlap, envVars, histVars>>

raw_read == RawRead(RawSamples, HumSamples)

temperature ==
    /\ Call("temperature", FALSE, NoLoc, "t_read", NoResult)
    /\ UNCHANGED <<objVars, histVars>>

\* the body of temperature(), called by the user or by pressure()/humidity()
temperature_body ==
    /\ pc = "t_read"
    /\ \/ Fails("r", TEMP, 3)
       \/ \E data \in RawSamples :
             LET adc_T == Raw20(data)
                 tf == TFine(adc_T, D("T1"), D("T2"), D("T3"))
             IN /\ Logged("r", TEMP, 3, TRUE)
                /\ loc' = [loc EXCEPT !.adc_T = <<adc_T>>, !.seenT = <<meas>>]
                /\ t_fine' = StoreTFine(t_fine, tf)
                /\ everTemp' = TRUE
                /\ writer' = 1
                /\ IF op = "temperature"
                   THEN pc' = "ret" /\ result' = Return(<<TemperatureValue(tf)>>)
                   ELSE pc' = (IF op = "pressure" THEN "p_raw" ELSE "h_raw")
                        /\ result' = result
                /\ UNCHANGED <<variant, usable, addr, dig, op, upd, tfAtCall, prev, overlap,
                               envVars, grp, resetPending>>

pressure ==
    /\ \E update_temperature \in BOOLEAN :
          Call("pressure", update_temperature, NoLoc,
               IF NeedsRefresh(t_fine, update_temperature) THEN "t_read" ELSE "p_raw",
               NoResult)
    /\ UNCHANGED <<objVars, histVars>>

\* adc_P = float(self.raw_pressure())
pressure_raw ==
    /\ pc = "p_raw"
    /\ \/ Fails("r", PRESS, 3)
       \/ \E data \in RawSamples :
             /\ Logged("r", PRESS, 3, TRUE)
             /\ loc' = [loc EXCEPT !.adc = <<Raw20(data)>>, !.seen = <<meas>>]
             /\ pc' = "p_comp"
             /\ UNCHANGED <<objVars, op, upd, result, tfAtCall, prev, overlap, envVars, histVars>>

\* the sign (-1, 0, 1) of x - y
DyCmp(x, y) == DySub(x, y).n.s

\* var1 as the test `if var1 == 0.0` finds it, p the coefficients
PressureVar1(tf, p) ==
    LET v == DySub(DyShr(tf, 1), Dy(64000))
        w == DyShr(DyAdd(DyShr(DyMul(DyMul(Dy(p["P3"]), v), v), 19), DyMul(Dy(p["P2"]), v)), 19)
    IN DyMul(DyAdd(Dy(1), DyShr(w, 15)), Dy(p["P1"]))

\* fault: the division by var1 made without the test before it
PressureUntested(adc, tf, p) ==
    IF DyCmp(PressureVar1(tf, p), Dy(0)) = 0 THEN Raise("ZeroDivisionError")
    ELSE Compensated(adc, tf)

\* the chain from var1 on: 0.0 (in tenths of a pascal) where var1 is zero;
\* the value beyond the division by var1 is carried as the inputs it is
\* computed from
PressureChain(adc, tf, p) ==
    IF DyCmp(PressureVar1(tf, p), Dy(0)) = 0 THEN Return(<<0>>)
    ELSE Compensated(adc, tf)

\* the coefficients of the object
DigTP == [c \in CoefTP |-> D(c)]

\* the compensation chain: its first statement reads self.t_fine
pressure_compensate ==
    /\ pc = "p_comp"
    /\ result' = IF t_fine = None THEN Raise("TypeError")
                 ELSE PressureChain(loc.adc, t_fine[1], DigTP)
    /\ pc' = "ret"
    /\ UNCHANGED <<objVars, op, upd, loc, busLog, tfAtCall, prev, overlap, envVars, histVars>>

humidity ==
    /\ variant = "BME280"
    /\ \E update_temperature \in BOOLEAN :
          Call("humidity", update_temperature, NoLoc,
               IF NeedsRefresh(t_fine, update_temperature) THEN "t_read" ELSE "h_raw",
               NoResult)
    /\ UNCHANGED <<objVars, histVars>>

\* adc_H = float(self.raw_humidity())
HumidityRaw(samples) ==
    /\ pc = "h_raw"
    /\ \/ Fails("r", HUM, 2)
       \/ \E data \in samples :
             /\ Logged("r", HUM, 2, TRUE)
             /\ loc' = [loc EXCEPT !.adc = <<Raw16(data)>>, !.seen = <<meas>>]
             /\ pc' = "h_comp"
             /\ UNCHANGED <<objVars, op, upd, result, tfAtCall, prev, overlap, envVars, histVars>>

humidity_raw == HumidityRaw(HumSamples)

\* a double holds x as a finite number: its magnitude is below 2^1024
DyFinite(x) == LimbBits * Len(x.n.m) - x.e < 1024

\* the three assignments of var_H before the clamp, h the coefficients H1..H6
HumidityChain(adc_H, tf, h) ==
    LET v0 == DySub(tf, Dy(76800))
        left == DySub(Dy(adc_H),
                      DyAdd(DyMul(Dy(h["H4"]), Dy(64)), DyMul(DyShr(Dy(h["H5"]), 14), v0)))
        inner == DyAdd(Dy(1), DyMul(DyShr(Dy(h["H3"]), 26), v0))
        right == DyMul(DyShr(Dy(h["H2"]), 16),
                       DyAdd(Dy(1), DyMul(DyMul(DyShr(Dy(h["H6"]), 26), v0), inner)))
        v1 == DyMul(left, right)
    IN DyMul(v1, DySub(Dy(1), DyShr(DyMul(Dy(h["H1"]), v1), 19)))

\* fault: the lower limit dropped
ClampUpperOnly(v) == IF DyCmp(v, Dy(100)) > 0 THEN Dy(100) ELSE v

\* if (var_H > 100.0): var_H = 100.0 elif (var_H < 0.0): var_H = 0.0
Clamp(v) ==
    IF DyCmp(v, Dy(100)) > 0 THEN Dy(100)
    ELSE IF DyCmp(v, Dy(0)) < 0 THEN Dy(0)
    ELSE v

\* round(var_H, 3), in thousandths of a percent
HumidityValue(adc_H, tf, h) == DyRound(DyMul(Clamp(HumidityChain(adc_H, tf, h)), Dy(1000)))

\* the humidity coefficients of the object
DigH == [c \in CoefH |-> D(c)]

humidity_compensate ==
    /\ pc = "h_comp"
    /\ result' = IF t_fine = None THEN Raise("TypeError")
                 ELSE [Compensated(loc.adc, t_fine) EXCEPT
                          !.val = <<HumidityValue(loc.adc[1], t_fine[1], DigH)>>]
    /\ pc' = "ret"
    /\ UNCHANGED <<objVars, op, upd, loc, busLog, tfAtCall, prev, overlap, envVars, histVars>>

(***************************************************************************)
(* The operation returns to the caller.  A constructor that raised leaves  *)
(* no object behind.                                                       *)
(***************************************************************************)
Ret ==
    /\ pc = "ret"
    /\ pc' = "idle"
    /\ op' = "none"
    /\ upd' = FALSE
    /\ loc' = NoLoc
    /\ busLog' = <<>>
    /\ result' = NoResult
    /\ tfAtCall' = None
    /\ prev' = IF op = "temperature" /\ result.kind = "return"
               THEN <<[adc |-> loc.adc_T[1], val |-> result.val[1], tf |-> t_fine,
                       before |-> tfAtCall]>>
               ELSE None
    /\ overlap' = FALSE
    /\ UNCHANGED envVars
    /\ IF op = "__init__"
       THEN IF result.kind = "return"
            THEN usable' = TRUE /\ UNCHANGED <<variant, addr, dig, t_fine, histVars>>
            ELSE /\ variant' = "none"
                 /\ usable' = FALSE
                 /\ addr' = I2C_ADDRESS
                 /\ dig' = NoDig
                 /\ t_fine' = None
                 /\ everTemp' = FALSE
                 /\ writer' = 0
                 /\ grp' = [g \in {"TP", "H"} |-> "unset"]
                 /\ resetPending' = FALSE
       ELSE UNCHANGED <<objVars, histVars>>

Next ==
    \/ BMP280_init
    \/ calibrate
    \/ calibrate_TP
    \/ calibrate_H1
    \/ calibrate_HX
    \/ reset
    \/ reg_write
    \/ byte_property
    \/ byte_read
    \/ set_acquisition_options
    \/ ctrl_hum_set
    \/ ctrl_meas_set
    \/ set_config
    \/ raw_read_call
    \/ raw_read
    \/ temperature
    \/ temperature_body
    \/ pressure
    \/ pressure_raw
    \/ pressure_compensate
    \/ humidity
    \/ humidity_raw
    \/ humidity_compensate
    \/ Ret

Spec == Init /\ [][Next]_vars

(***************************************************************************)
(* Calibration alone, over a wide set of 24-byte blocks: every pair of the *)
(* datasheet block in turn replaced by every combination of edge bytes.    *)
(***************************************************************************)
EdgeBytes == {0, 1, 127, 128, 255}

WideImages ==
    {[i \in 1..24 |-> IF i = 2 * k - 1 THEN lo ELSE IF i = 2 * k THEN hi ELSE DatasheetTP[i]] :
        k \in 1..12, lo \in EdgeBytes, hi \in EdgeBytes}

calibrate_TP_wide == CalReadTP(WideImages)

NextCal ==
    \/ BMP280_init
    \/ calibrate_TP_wide
    \/ calibrate_H1
    \/ calibrate_HX
    \/ Ret

SpecCal == Init /\ [][NextCal]_vars

(***************************************************************************)
(* Calibration of a device whose memory holds the byte layout of a         *)
(* coefficient set within the documented ranges: the datasheet's set with  *)
(* each coefficient in turn replaced by the edge values of its range.      *)
(***************************************************************************)
DatasheetCoefs ==
    [c \in Coefs |-> IF c \in CoefTP THEN DecodeTP(DatasheetTP)[c]
                                     ELSE DecodeH(DatasheetH1, DatasheetHX)[c]]

\* the documented range of a coefficient, as <<lowest, highest>>
CoefRange(c) ==
    CASE c \in {"T1", "P1"} -> <<0, 65535>>
      [] c \in {"H1", "H3"} -> <<0, 255>>
      [] c \in {"H4", "H5"} -> <<-2048, 2047>>
      [] c = "H6" -> <<-128, 127>>
      [] OTHER -> <<-32768, 32767>>

EdgeValues(c) ==
    LET lo == CoefRange(c)[1]
        hi == CoefRange(c)[2]
    IN {lo, hi, (lo + hi) \div 2, (lo + hi) \div 2 + 1} \cup ({-1, 0, 1} \cap (lo..hi))

CoefSets == {[DatasheetCoefs EXCEPT ![c] = v] : <<c, v>> \in UNION {{c} \X EdgeValues(c) : c \in Coefs}}

\* the layout: a 16-bit pattern low byte first; H4 and H5 as 12-bit patterns
\* sharing the nibbles of byte 4
EncPair(v) == <<(v % 65536) % 256, (v % 65536) \div 256>>

EncodeTP(cs) ==
    EncPair(cs["T1"]) \o EncPair(cs["T2"]) \o EncPair(cs["T3"]) \o EncPair(cs["P1"])
    \o EncPair(cs["P2"]) \o EncPair(cs["P3"]) \o EncPair(cs["P4"]) \o EncPair(cs["P5"])
    \o EncPair(cs["P6"]) \o EncPair(cs["P7"]) \o EncPair(cs["P8"]) \o EncPair(cs["P9"])

EncodeH1(cs) == <<cs["H1"] % 256>>

EncodeHX(cs) ==
    LET h4 == cs["H4"] % 4096
        h5 == cs["H5"] % 4096
    IN EncPair(cs["H2"]) \o
       <<cs["H3"] % 256, h4 \div 16, (h4 % 16) + 16 * (h5 % 16), h5 \div 16, cs["H6"] % 256>>

calibrate_TP_enc == CalReadTP({EncodeTP(cs) : cs \in CoefSets})
calibrate_H1_enc == CalReadH1({EncodeH1(cs) : cs \in CoefSets})
calibrate_HX_enc == CalReadHX({EncodeHX(cs) : cs \in CoefSets})

NextEnc ==
    \/ BMP280_init
    \/ calibrate_TP_enc
    \/ calibrate_H1_enc
    \/ calibrate_HX_enc
    \/ Ret

SpecEnc == Init /\ [][NextEnc]_vars

(***************************************************************************)
(* Calibration over a bus that may hand back a list shorter or longer than *)
(* the count asked for: I2CBus.read_i2c_block_data returns what the SMBus  *)
(* library returns, and calibrate() indexes the list without looking at    *)
(* its length.                                                             *)
(***************************************************************************)
LenSlack == 1

Resize(data, n) == [i \in 1..n |-> IF i <= Len(data) THEN data[i] ELSE 0]

Resized(images, n) == {Resize(data, n + d) : data \in images, d \in (0 - LenSlack)..LenSlack}

calibrate_TP_len == CalReadTP(Resized({CalImage(0), CalImage(1)}, 24))
calibrate_H1_len == CalReadH1(Resized({DatasheetH1}, 1))
calibrate_HX_len == CalReadHX(Resized({DatasheetHX}, 7))

NextLen ==
    \/ BMP280_init
    \/ calibrate
    \/ calibrate_TP_len
    \/ calibrate_H1_len
    \/ calibrate_HX_len
    \/ Ret

SpecLen == Init /\ [][NextLen]_vars

(***************************************************************************)
(* The raw reads alone, over every combination of edge bytes.              *)
(***************************************************************************)
SampleBytes == {0, 1, 15, 16, 127, 128, 240, 255}

raw_read_wide == RawRead(SampleBytes \X SampleBytes \X SampleBytes, SampleBytes \X SampleBytes)

NextRaw ==
    \/ BMP280_init
    \/ calibrate_TP
    \/ calibrate_H1
    \/ calibrate_HX
    \/ raw_read_call
    \/ raw_read_wide
    \/ Ret

SpecRaw == Init /\ [][NextRaw]_vars

(***************************************************************************)
(* humidity() alone, over humidity coefficients and raw samples that drive *)
(* the compensated value below 0, into the range and above 100.            *)
(***************************************************************************)
WideHumH1 == {<<0>>, <<75>>, <<255>>}
WideHumHX ==
    {DatasheetHX,
     <<0, 0, 0, 0, 0, 0, 0>>,
     <<255, 255, 255, 255, 255, 255, 255>>,
     <<255, 127, 255, 0, 0, 0, 127>>,
     <<0, 128, 0, 0, 0, 0, 128>>}
WideHumSamples == {<<0, 0>>, <<126, 237>>, <<255, 255>>}

calibrate_H1_hum == CalReadH1(WideHumH1)
calibrate_HX_hum == CalReadHX(WideHumHX)
humidity_raw_wide == HumidityRaw(WideHumSamples)

NextHum ==
    \/ BMP280_init
    \/ calibrate_TP
    \/ calibrate_H1_hum
    \/ calibrate_HX_hum
    \/ humidity
    \/ temperature_body
    \/ humidity_raw_wide
    \/ humidity_compensate
    \/ Ret

SpecHum == Init /\ [][NextHum]_vars

(***************************************************************************)
(* The measurements with what runs beside them: the chip, which in normal  *)
(* mode completes conversions on its own and then updates its data         *)
(* registers, and a second caller (a thread) calling temperature() on the  *)
(* same object.  Nothing in the class serialises the callers: a thread     *)
(* switch can fall between any two bus transactions of a call.             *)
(***************************************************************************)
MaxMeas == 1

\* the chip completes a conversion
device_measures ==
    /\ meas < MaxMeas
    /\ meas' = meas + 1
    /\ UNCHANGED <<objVars, pc, op, upd, loc, busLog, result, tfAtCall, prev, overlap,
                   histVars, pc2, otherChips>>

\* the second caller calls temperature()
other_temperature ==
    /\ usable
    /\ pc2 = "idle"
    /\ pc2' = "t_read"
    /\ overlap' = (overlap \/ pc # "idle")
    /\ UNCHANGED <<objVars, pc, op, upd, loc, busLog, result, tfAtCall, prev, histVars, meas,
                   otherChips>>

\* the body of temperature() run by the second caller
other_temperature_body ==
    /\ pc2 = "t_read"
    /\ pc2' = "idle"
    /\ \/ UNCHANGED <<t_fine, everTemp, writer>>   \* the read raises I2CError
       \/ \E data \in RawSamples :
             /\ t_fine' = StoreTFine(t_fine, TFine(Raw20(data), D("T1"), D("T2"), D("T3")))
             /\ everTemp' = TRUE
             /\ writer' = 2
    /\ UNCHANGED <<variant, usable, addr, dig, pc, op, upd, loc, busLog, result, tfAtCall,
                   prev, overlap, grp, resetPending, meas, otherChips>>

calibrate_TP_one == CalReadTP({DatasheetTP})
calibrate_H1_one == CalReadH1({DatasheetH1})
calibrate_HX_one == CalReadHX({DatasheetHX})

NextConc ==
    \/ BMP280_init
    \/ calibrate_TP_one
    \/ calibrate_H1_one
    \/ calibrate_HX_one
    \/ pressure
    \/ humidity
    \/ temperature_body
    \/ pressure_raw
    \/ pressure_compensate
    \/ humidity_raw
    \/ humidity_compensate
    \/ Ret
    \/ device_measures
    \/ other_temperature
    \/ other_temperature_body

SpecConc == Init /\ [][NextConc]_vars

(***************************************************************************)
(* PCF8574 I/O expander: the buffered pin list and the byte on the wire.   *)
(***************************************************************************)
\* int(bool(val))
Truth(val) == IF val = 0 THEN 0 ELSE 1

RECURSIVE list2byteLoop(_, _, _)
\* for val in reversed(list_): byte += int(bool(val)); byte <<= 1
list2byteLoop(list_, k, byte) ==
    IF k = 0 THEN byte
    ELSE list2byteLoop(list_, k - 1, (byte + Truth(list_[k])) * 2)

\* PCF8574.list2byte: the loop, then byte >>= 1
list2byte(list_) == list2byteLoop(list_, Len(list_), 0) \div 2

\* fault: the list built most significant bit first
byte2listMsbFirst(byte) == [i \in 1..8 |-> (byte \div (2 ^ (8 - i))) % 2]

\* PCF8574.byte2list: eight times val = byte % 2, byte >>= 1
byte2list(byte) == [i \in 1..8 |-> (byte \div (2 ^ (i - 1))) % 2]

\* arguments of the calls
PinArgs == {0, 3, 7}
ValArgs == {0, 1, 2}
ByteArgs == {0, 165}
ListArgs == {byte2list(90), <<1, 0, 0, 0, 0, 0, 0, 2>>}

\* write_byte(val): self._pins = self.byte2list(val), then the bus write,
\* which raises I2CError when it fails
WriteByte(p, val, ok) ==
    [p EXCEPT !.pins = byte2list(val),
              !.wire = IF ok THEN <<val>> ELSE @,
              !.pending = IF ok THEN FALSE ELSE @]

\* write_all(val): byte = self.list2byte(list_), then write_byte(byte)
WriteAll(p, list_, ok) == WriteByte(p, list2byte(list_), ok)

CallOf(name, pin, val, update, ok) ==
    [name |-> name, pin |-> pin, val |-> val, update |-> update, ok |-> ok,
     flushed |-> ok /\ pcf.pending /\ (name = "update" \/ (name = "write" /\ update))]

PCF8574_write_byte ==
    /\ \E val \in ByteArgs, ok \in BOOLEAN :
          pcf' = [WriteByte(pcf, val, ok) EXCEPT
                     !.call = CallOf("write_byte", 0, val, TRUE, ok)]
    /\ UNCHANGED <<sensorVars, ina, sn>>

PCF8574_write_all ==
    /\ \E list_ \in ListArgs, ok \in BOOLEAN :
          pcf' = [WriteAll(pcf, list_, ok) EXCEPT
                     !.call = CallOf("write_all", 0, 0, TRUE, ok)]
    /\ UNCHANGED <<sensorVars, ina, sn>>

\* write(pin, val, update): a copy of the list with one entry replaced is
\* sent with write_all, or (update false) becomes the buffered list
PCF8574_write ==
    /\ \E pin \in PinArgs, val \in ValArgs, update \in BOOLEAN, ok \in BOOLEAN :
          LET list_ == [pcf.pins EXCEPT ![pin + 1] = Truth(val)]
          IN IF update
             THEN pcf' = [WriteAll(pcf, list_, ok) EXCEPT
                             !.call = CallOf("write", pin, val, TRUE, ok)]
             ELSE /\ ok
                  /\ pcf' = [pcf EXCEPT !.pins = list_, !.pending = TRUE,
                                        !.call = CallOf("write", pin, val, FALSE, TRUE)]
    /\ UNCHANGED <<sensorVars, ina, sn>>

\* update(): write_all of a copy of the buffered list
PCF8574_update ==
    /\ \E ok \in BOOLEAN :
          pcf' = [WriteAll(pcf, pcf.pins, ok) EXCEPT
                     !.call = CallOf("update", 0, 0, TRUE, ok)]
    /\ UNCHANGED <<sensorVars, ina, sn>>

NextPcf ==
    \/ PCF8574_write_byte
    \/ PCF8574_write_all
    \/ PCF8574_write
    \/ PCF8574_update

SpecPcf == Init /\ [][NextPcf]_vars

(***************************************************************************)
(* INA219 current sensor: the ADC settings and the config word.            *)
(***************************************************************************)
INA219_RESET == 32768
SUPPORTED_ADC == {9, 10, 11, 12, 2, 4, 8, 16, 32, 64, 128}

\* INA219._get_ADC: the constants as the source writes them (0x9, 0x10,
\* 0x11, ...), -1 where it raises
get_ADC(value) ==
    CASE value = 9 -> 0 [] value = 10 -> 1 [] value = 11 -> 2 [] value = 12 -> 3
      [] value = 2 -> 9 [] value = 4 -> 16 [] value = 8 -> 17 [] value = 16 -> 18
      [] value = 32 -> 19 [] value = 64 -> 20 [] value = 128 -> 21
      [] OTHER -> -1

\* the PG field for self._gain, -1 where _config_set raises
GainField(g) == CASE g = 1 -> 0 [] g = 2 -> 1 [] g = 4 -> 2 [] g = 8 -> 3 [] OTHER -> -1

\* _config_set: the word assembled from the attributes of the object o
ConfigWord(o) ==
    (o.mode % 8) + (get_ADC(o.shuntADC) % 16) * 8 + (get_ADC(o.busADC) % 16) * 128
        + (GainField(o.gain) % 16) * 2048 + (IF o.vrange = 16 THEN 0 ELSE 1) * 8192

\* _config_set on the object o: raises before the write for an attribute
\* it cannot encode, else writes the word (the bus write may fail)
ConfigSet(o, ok) ==
    IF get_ADC(o.shuntADC) < 0 \/ get_ADC(o.busADC) < 0 \/ GainField(o.gain) < 0 \/ ~ok
    THEN [o EXCEPT !.synced = FALSE]
    ELSE [o EXCEPT !.config = <<ConfigWord(o)>>, !.synced = TRUE]

\* values passed to shuntADC() / busADC(): the supported ones, an
\* unsupported one
ADCArgs == SUPPORTED_ADC \cup {13}

\* shuntADC(value, update) / busADC(value, update) with a value
SetADC(field) ==
    /\ \E value \in ADCArgs, update \in BOOLEAN, ok \in BOOLEAN :
          IF value \notin SUPPORTED_ADC
          THEN ok /\ update /\ ina' = ina          \* raises INA219Error
          ELSE LET o == [ina EXCEPT ![field] = value, !.synced = FALSE]
               IN IF update THEN ina' = ConfigSet(o, ok)
                  ELSE ok /\ ina' = o
    /\ UNCHANGED <<sensorVars, pcf, sn>>

INA219_shuntADC == SetADC("shuntADC")
INA219_busADC == SetADC("busADC")

\* reset(): the RESET word written to CONFIG, then _init_params()
INA219_reset ==
    /\ \E ok \in BOOLEAN :
          ina' = IF ok THEN [NewINA219 EXCEPT !.config = <<INA219_RESET>>] ELSE ina
    /\ UNCHANGED <<sensorVars, pcf, sn>>

NextIna ==
    \/ INA219_shuntADC
    \/ INA219_busADC
    \/ INA219_reset

SpecIna == Init /\ [][NextIna]_vars

(***************************************************************************)
(* SN3218 LED driver: the channel enable list and the enable registers.    *)
(***************************************************************************)
\* list_[start:stop:-1] of a Python list (0-based, start inside the list):
\* the entries start, start - 1, ..., stop + 1
SliceDown(list_, start, stop) == [k \in 1..(start - stop) |-> list_[start - k + 2]]

RECURSIVE PackLoop(_, _, _)
\* for channel in ...: ch += int(bool(channel)); ch <<= 1
PackLoop(seq, k, ch) ==
    IF k > Len(seq) THEN ch
    ELSE PackLoop(seq, k + 1, (ch + Truth(seq[k])) * 2)

\* the loop, then ch >>= 1
Pack(seq) == PackLoop(seq, 1, 0) \div 2

\* _channel_output: [chA, chB, chC] for the list e
EnableBytes(e) ==
    <<Pack(SliceDown(e, 6, 0)), Pack(SliceDown(e, 12, 5)), Pack(SliceDown(e, 18, 12))>>

\* _channel_output(update) on the object o: the block write to ENABLE_LEDS,
\* then update(update); how is "ok", "block" (the block write raises) or
\* "update" (the write to the UPDATE register raises)
ChannelOutput(o, name, channel, how) ==
    [o EXCEPT !.leds = IF how = "block" THEN @ ELSE EnableBytes(o.channel_enable),
              !.call = [name |-> name, channel |-> channel, sent |-> how # "block"]]

\* what the bus may do in a call, given its update argument
Outcomes(update) == IF update THEN {"ok", "block", "update"} ELSE {"ok", "block"}

ChannelArgs == {0, 1, 6, 7, 12, 18, 19}
MaskArgs == {[i \in 1..18 |-> 0], [i \in 1..18 |-> 1], [i \in 1..17 |-> 1]}

\* channel_output(channel, enable, update)
SN3218_channel_output ==
    /\ \E channel \in ChannelArgs, enable \in BOOLEAN, update \in BOOLEAN :
          \E how \in Outcomes(update) :
              IF channel < 1 \/ channel > 18
              THEN sn' = [sn EXCEPT !.call = [name |-> "channel_output", channel |-> channel,
                                               sent |-> FALSE]]   \* raises SN3218Error
              ELSE sn' = ChannelOutput(
                             [sn EXCEPT !.channel_enable[channel + 1] = IF enable THEN 1 ELSE 0],
                             "channel_output", channel, how)
    /\ UNCHANGED <<sensorVars, pcf, ina>>

\* channel_mask(mask, update)
SN3218_channel_mask ==
    /\ \E mask \in MaskArgs, update \in BOOLEAN :
          \E how \in Outcomes(update) :
              IF Len(mask) # 18
              THEN sn' = [sn EXCEPT !.call = [name |-> "channel_mask", channel |-> 0,
                                               sent |-> FALSE]]   \* raises SN3218Error
              ELSE sn' = ChannelOutput([sn EXCEPT !.channel_enable = <<0>> \o mask],
                                       "channel_mask", 0, how)
    /\ UNCHANGED <<sensorVars, pcf, ina>>

NextSn ==
    \/ SN3218_channel_output
    \/ SN3218_channel_mask

SpecSn == Init /\ [][NextSn]_vars

(***************************************************************************)
(* Properties.                                                             *)
(***************************************************************************)
\* positions of pressure() / humidity() after the optional temperature refresh
AfterRefresh == {"p_raw", "p_comp", "h_raw", "h_comp"}
\* positions at which the compensation chain reads self.t_fine
ChainReads == {"p_comp", "h_comp"}
\* positions inside a measurement operation
MeasurePcs == {"raw_read", "t_read", "p_raw", "p_comp", "h_raw", "h_comp"}

Compensating == op \in {"pressure", "humidity"}

\* the running operation has attempted a read of the TEMP registers
TempReadInCall == \E i \in DOMAIN busLog : busLog[i].reg = TEMP /\ busLog[i].rw = "r"

\* this step is a bus transaction that succeeded
XferOk == Len(busLog') = Len(busLog) + 1 /\ busLog'[Len(busLog')].ok

\* this step is a temperature computation that completed
TempComputed == pc = "t_read" /\ XferOk

\* C1: pressure() and humidity() never read t_fine while it is unset: when
\* the compensation chain reads t_fine it is set, and a call that found
\* t_fine unset (also with update_temperature = False) has computed the
\* temperature in that call before; the chain never fails on an unset t_fine.
C1_NeverReadsUnset ==
    /\ pc \in ChainReads => t_fine # None
    /\ (Compensating /\ tfAtCall = None /\ pc \in AfterRefresh)
          => (loc.adc_T # None /\ t_fine # None)
    /\ (Compensating /\ pc = "ret") => result.exc # "TypeError"

C1_Witness ==
    /\ op = "pressure" /\ pc = "p_comp"
    /\ ~upd /\ tfAtCall = None /\ ~(t_fine = None)

\* C2: pressure()/humidity() compute the temperature at their start exactly
\* when t_fine is unset or update_temperature is true; with
\* update_temperature false and t_fine set, no temperature sample is read
\* and t_fine keeps its value throughout the call.
C2_RefreshIff ==
    Compensating =>
        /\ pc = "t_read" => (busLog = <<>> /\ (tfAtCall = None \/ upd))
        /\ pc # "t_read" => (TempReadInCall <=> (tfAtCall = None \/ upd))
        /\ TempReadInCall => (busLog[1].reg = TEMP /\
                               \A i \in DOMAIN busLog : i > 1 => busLog[i].reg # TEMP)
        /\ (~upd /\ tfAtCall # None) => (t_fine = tfAtCall /\ loc.adc_T = None)

C2_Witness ==
    /\ op = "humidity" /\ pc = "ret" /\ result.kind = "return"
    /\ ~upd /\ ~(tfAtCall = None) /\ ~TempReadInCall

\* C3: every temperature computation that completes overwrites t_fine with
\* var1 + var2 of the raw sample read in that call and T1..T3, whatever
\* t_fine held before.
C3_Overwrites ==
    [][TempComputed =>
          t_fine' = <<TFine(loc'.adc_T[1], D("T1"), D("T2"), D("T3"))>>]_vars

C3_Witness ==
    /\ op = "temperature" /\ pc = "ret" /\ result.kind = "return"
    /\ ~(tfAtCall = None) /\ t_fine # tfAtCall

\* C4: t_fine changes only in a step of temperature() (called directly or
\* as the refresh of pressure()/humidity()); no other step changes it.
C4_OnlyTemperature == [][t_fine' # t_fine => pc = "t_read"]_vars

C4_Witness ==
    /\ op = "reset" /\ pc = "ret" /\ result.kind = "return"
    /\ ~(t_fine = None) /\ t_fine = tfAtCall

\* C5: t_fine is unset from construction (which runs calibrate()) until the
\* first temperature computation completes on the object, and set from then on.
C5_UnsetUntilFirst ==
    /\ (t_fine = None) <=> ~everTemp
    /\ op = "__init__" => t_fine = None

C5_Witness ==
    /\ op = "humidity" /\ pc = "h_raw"
    /\ tfAtCall = None /\ ~(t_fine = None) /\ everTemp

\* C6: on a constructed object no operation other than calibrate() changes
\* any calibration coefficient.
C6_CoefficientsKept == [][(usable /\ op # "calibrate") => dig' = dig]_vars

C6_Witness ==
    /\ op = "set_acquisition_options" /\ pc = "ret" /\ result.kind = "return"
    /\ \A c \in Coefs : dig[c] # None

\* C7: a usable object never holds a partly updated coefficient set: between
\* operations all its coefficient groups come from the same calibrate() call.
C7_AllOrNothing ==
    (usable /\ pc = "idle") =>
        /\ grp["TP"] = "cur"
        /\ variant = "BME280" => grp["H"] = "cur"

\* what construction reads: one block per coefficient group
InitReads(cls, a) ==
    IF cls = "BME280"
    THEN <<[rw |-> "r", addr |-> a, reg |-> CALIBRATION, n |-> 24, ok |-> TRUE],
           [rw |-> "r", addr |-> a, reg |-> CALIBRATION_H1, n |-> 1, ok |-> TRUE],
           [rw |-> "r", addr |-> a, reg |-> CALIBRATION_HX, n |-> 7, ok |-> TRUE]>>
    ELSE <<[rw |-> "r", addr |-> a, reg |-> CALIBRATION, n |-> 24, ok |-> TRUE]>>

Loaded == \A c \in (IF variant = "BME280" THEN Coefs ELSE CoefTP) : dig[c] # None

ConstructionLoads ==
    /\ (op = "__init__" /\ pc = "ret" /\ result.kind = "return")
          => (busLog = InitReads(variant, addr) /\ Loaded)
    /\ pc \in MeasurePcs => Loaded

\* C8 as stated: the store is loaded by one block read per group right after
\* construction and right after reset(): no measurement runs between a
\* construction or a reset and the calibration load that follows it.
C8_LoadAfterInitAndReset ==
    /\ ConstructionLoads
    /\ pc \in MeasurePcs => ~resetPending

\* C8 amended: the store is loaded by one block read per group during
\* construction, before any measurement; reset() only writes SOFT_RESET to
\* the RESET register and reads no calibration.
C8_LoadAtConstruction ==
    /\ ConstructionLoads
    /\ op = "reset" =>
          \A i \in DOMAIN busLog : busLog[i].rw = "w" /\ busLog[i].reg = RESET

C8_Witness ==
    /\ pc = "t_read" /\ resetPending /\ Loaded /\ variant = "BME280"

(***************************************************************************)
(* Decoding of the 24-byte block, stated on the bytes.                     *)
(***************************************************************************)
\* the k-th little-endian pair of the block the running calibrate() has read
PairU(k) == loc.data[2 * k - 1] + 256 * loc.data[2 * k]
PairS(k) == IF PairU(k) >= 32768 THEN PairU(k) - 65536 ELSE PairU(k)

\* the running calibrate() has read and decoded the block
BlockDecoded == pc \in {"cal_H1", "cal_HX", "ret"} /\ loc.data # <<>>

\* C9: T1 and P1 are the unsigned values of their pairs (0..65535), T2, T3
\* and P2..P9 the two's-complement values of theirs (-32768..32767), pairs
\* taken in the order T1, T2, T3, P1..P9.
C9_Decode ==
    BlockDecoded =>
        \A k \in 1..12 :
            IF CoefOrder[k] \in {"T1", "P1"}
            THEN D(CoefOrder[k]) = PairU(k) /\ D(CoefOrder[k]) \in 0..65535
            ELSE D(CoefOrder[k]) = PairS(k) /\ D(CoefOrder[k]) \in -32768..32767

C9_Witness ==
    /\ BlockDecoded
    /\ PairU(1) >= 32768 /\ D("T1") = PairU(1)

\* C10 as stated: only the first pair is decoded as unsigned, each of the
\* other eleven as signed two's complement.
C10_OnlyFirstUnsigned ==
    BlockDecoded =>
        /\ D(CoefOrder[1]) = PairU(1)
        /\ \A k \in 2..12 : D(CoefOrder[k]) = PairS(k)

\* C10 amended: the first and the fourth pair (T1 and P1) are decoded as
\* unsigned, each of the other ten as signed two's complement: a coefficient
\* is negative exactly when it is none of these two and bit 15 of its pair
\* is set, and it is congruent to its pair modulo 2^16.
C10_FirstAndFourthUnsigned ==
    BlockDecoded =>
        \A k \in 1..12 :
            /\ (D(CoefOrder[k]) < 0) <=> (k \notin {1, 4} /\ loc.data[2 * k] >= 128)
            /\ (D(CoefOrder[k]) - PairU(k)) % 65536 = 0
            /\ D(CoefOrder[k]) < 32768 \/ k \in {1, 4}

C10_Witness ==
    /\ BlockDecoded
    /\ PairU(4) >= 32768 /\ D("P1") = PairU(4)
    /\ PairU(5) >= 32768 /\ D("P2") < 0

(***************************************************************************)
(* Decoding of the humidity bytes, stated on the bytes.                    *)
(***************************************************************************)
\* the running calibrate() has read and decoded the humidity bytes
HumDecoded == pc = "ret" /\ loc.dataHX # <<>>

\* the two's-complement value of the low `bits` bits of x
SignedBits(x, bits) ==
    LET u == x % (2 ^ bits) IN IF u >= 2 ^ (bits - 1) THEN u - 2 ^ bits ELSE u

\* the 12-bit fields packed across bytes 3, 4 and 5 of the block
PackedH4 == loc.dataHX[4] * 16 + (loc.dataHX[5] % 16)
PackedH5 == loc.dataHX[6] * 16 + (loc.dataHX[5] \div 16)

\* C11: the humidity load yields H1 = the unsigned byte at 0xA1, H2 = the
\* signed 16-bit little-endian value of b[0], b[1], H3 = the unsigned b[2],
\* H4 and H5 = the signed 12-bit values of their packed fields (in
\* -2048..2047, negative when bit 11 of the field is set), H6 = the signed
\* 8-bit b[6].
C11_HumidityDecode ==
    HumDecoded =>
        /\ D("H1") = loc.dataH1[1]
        /\ D("H2") = SignedBits(loc.dataHX[1] + 256 * loc.dataHX[2], 16)
        /\ D("H3") = loc.dataHX[3]
        /\ D("H4") = SignedBits(PackedH4, 12)
        /\ D("H5") = SignedBits(PackedH5, 12)
        /\ D("H6") = SignedBits(loc.dataHX[7], 8)
        /\ D("H4") \in -2048..2047 /\ D("H5") \in -2048..2047
        /\ (D("H4") < 0) <=> (PackedH4 >= 2048)
        /\ (D("H5") < 0) <=> (PackedH5 >= 2048)

\* C12: decoding is a round trip: when the bytes a calibrate() call has read
\* are the byte layout of a coefficient set within the documented ranges,
\* the coefficients it has assigned are exactly that set (the twelve of the
\* 24-byte block, and the six of the 1 + 7 humidity bytes).
C12_RoundTrip ==
    /\ BlockDecoded =>
          \A cs \in CoefSets :
              EncodeTP(cs) = loc.data => \A c \in CoefTP : D(c) = cs[c]
    /\ HumDecoded =>
          \A cs \in CoefSets :
              (EncodeH1(cs) = loc.dataH1 /\ EncodeHX(cs) = loc.dataHX)
                  => \A c \in CoefH : D(c) = cs[c]

\* this step completes the reads of a calibration load with a byte count
\* other than 24 (or, on the humidity variant, other than 1 + 7 more)
WrongCount ==
    /\ XferOk
    /\ \/ pc = "cal_TP" /\ Len(loc'.data) # 24
       \/ pc = "cal_HX" /\ Len(loc'.dataH1) + Len(loc'.dataHX) # 8

\* C13: a calibration load handed a byte count other than 24 (or 24 + 8),
\* too few or too many, fails with CalibrationError, and no coefficient is
\* populated by it.
C13_WrongCountRejected ==
    [][WrongCount => (pc' = "ret" /\ result' = Raise("CalibrationError") /\ dig' = dig)]_vars

\* bitwise or of two naturals
RECURSIVE BitOr(_, _)
BitOr(x, y) ==
    IF x = 0 THEN y
    ELSE IF y = 0 THEN x
    ELSE (IF x % 2 = 1 \/ y % 2 = 1 THEN 1 ELSE 0) + 2 * BitOr(x \div 2, y \div 2)

\* a raw read has returned a value for the bytes loc.data
RawReturned(names) == op \in names /\ pc = "ret" /\ result.kind = "return"

\* C14: for the three bytes b0, b1, b2 read, raw_temperature() and
\* raw_pressure() return (b0 << 12) | (b1 << 4) | (b2 >> 4), a value in
\* 0..2^20 - 1 (the additions never carry between the fields);
\* raw_humidity() returns (b0 << 8) + b1, in 0..65535.
C14_RawAssembly ==
    /\ RawReturned({"raw_temperature", "raw_pressure"}) =>
          /\ result.val[1] = BitOr(BitOr(loc.data[1] * 4096, loc.data[2] * 16),
                                   loc.data[3] \div 16)
          /\ result.val[1] \in 0..(2 ^ 20 - 1)
    /\ RawReturned({"raw_humidity"}) =>
          /\ result.val[1] = loc.data[1] * 256 + loc.data[2]
          /\ result.val[1] \in 0..65535

C14_Witness ==
    /\ RawReturned({"raw_pressure"})
    /\ loc.data = <<255, 255, 255>> /\ result.val[1] = 2 ^ 20 - 1

\* humidity() has returned a value; the value of var_H before the clamp
HumidityReturned == op = "humidity" /\ pc = "ret" /\ result.kind = "return"
Unclamped == HumidityChain(loc.adc[1], t_fine[1], DigH)

\* C15: humidity() never returns a value outside [0.0, 100.0]: a compensated
\* value above 100 is returned as 100.0, one below 0 as 0.0, any other as
\* itself rounded to three places (the clamp comes before the rounding);
\* the value is finite at every step of the chain, so no NaN arises.
C15_HumidityClamped ==
    HumidityReturned =>
        /\ result.val[1] \in 0..100000
        /\ DyCmp(Unclamped, Dy(100)) > 0 => result.val[1] = 100000
        /\ DyCmp(Unclamped, Dy(0)) < 0 => result.val[1] = 0
        /\ (DyCmp(Unclamped, Dy(100)) <= 0 /\ DyCmp(Unclamped, Dy(0)) >= 0)
              => result.val[1] = DyRound(DyMul(Unclamped, Dy(1000)))
        /\ DyFinite(Unclamped)

C15_Witness ==
    /\ HumidityReturned
    /\ DyCmp(Unclamped, Dy(0)) < 0 /\ result.val[1] = 0

C15_WitnessAbove ==
    /\ HumidityReturned
    /\ DyCmp(Unclamped, Dy(100)) > 0 /\ result.val[1] = 100000

C15_WitnessInside ==
    /\ HumidityReturned
    /\ result.val[1] \in 1..99999

\* the compensation chain of pressure() has run
PressureChainRan == op = "pressure" /\ pc = "ret" /\ loc.adc # None
Var1Zero == DyCmp(PressureVar1(t_fine[1], DigTP), Dy(0)) = 0

\* C16: where var1, normalised by dig_P1, is zero (as it is when dig_P1 is
\* 0), pressure() returns exactly 0.0 and the chain raises nothing: the
\* test comes before the division by var1, whatever the raw sample and
\* t_fine are.
C16_ZeroVar1 ==
    PressureChainRan =>
        /\ D("P1") = 0 => Var1Zero
        /\ Var1Zero => result = Return(<<0>>)
        /\ result.kind = "return"

C16_Witness ==
    /\ PressureChainRan /\ D("P1") = 0 /\ result = Return(<<0>>)
    /\ t_fine # <<Dy(0)>> /\ loc.adc[1] # 0

\* a temperature() call has returned right after another temperature() call
\* that returned, and both have read the same raw sample
SecondOfTwo ==
    /\ op = "temperature" /\ pc = "ret" /\ result.kind = "return"
    /\ prev # None /\ prev[1].adc = loc.adc_T[1]

\* C17: temperature() is idempotent for a fixed raw sample and calibration:
\* the second of two consecutive calls that read the same raw sample returns
\* the value the first returned and leaves the t_fine the first left,
\* whatever t_fine was before the first call.
C17_Idempotent ==
    SecondOfTwo => (result.val[1] = prev[1].val /\ t_fine = prev[1].tf)

C17_Witness ==
    /\ SecondOfTwo
    /\ prev[1].before # None /\ prev[1].before # prev[1].tf
    /\ t_fine = prev[1].tf

\* the operations that read the calibration or a raw sample
ReadingOps == {"__init__", "calibrate", "temperature", "pressure", "humidity"}

\* C18: a bus failure during a calibration read or a raw-sample read reaches
\* the caller of calibrate/temperature/pressure/humidity: the failed
\* transaction is the last one of the call, it is attempted once (no
\* register is read twice in a call), the call raises the bus error and
\* returns no value.
C18_FailurePropagates ==
    op \in ReadingOps =>
        /\ \A i \in DOMAIN busLog :
              ~busLog[i].ok =>
                  (i = Len(busLog) /\ pc = "ret" /\ result = Raise("I2CError"))
        /\ \A i, j \in DOMAIN busLog : busLog[i].reg = busLog[j].reg => i = j

C18_Witness ==
    /\ op = "pressure" /\ pc = "ret" /\ result = Raise("I2CError")
    /\ Len(busLog) = 2 /\ busLog[1].ok /\ busLog[1].reg = TEMP
    /\ ~busLog[2].ok /\ busLog[2].reg = PRESS

\* pressure() / humidity() has read its raw sample after refreshing the
\* temperature in the same call
BothSamplesRead == Compensating /\ pc \in ChainReads /\ loc.seenT # None

\* C19: when pressure() (or humidity()) refreshes the temperature, the two
\* raw samples it uses come from one acquisition cycle: the chip has
\* completed no conversion between the read of the temperature sample and
\* the read of the other sample.
C19_OneAcquisitionCycle == BothSamplesRead => loc.seen = loc.seenT

\* the t_fine that the temperature refresh of the running call computed
OwnTFine == <<TFine(loc.adc_T[1], D("T1"), D("T2"), D("T3"))>>

\* pressure(update_temperature=True) / humidity(update_temperature=True) is
\* at the statement of its chain that reads t_fine
ChainReadsRefreshed == Compensating /\ pc \in ChainReads /\ upd

\* C20: while the calls on the object are serialised (no other caller is
\* inside a call at any moment of the operation), pressure() / humidity()
\* with update_temperature = True computes with the t_fine that the
\* temperature computation of that same call wrote; a t_fine read by the
\* chain that is not the call's own was written by the other caller's
\* temperature() during the call.
C20_SerializedOwnTFine ==
    ChainReadsRefreshed =>
        /\ loc.adc_T # None
        /\ ~overlap => (t_fine = OwnTFine /\ writer = 1)
        /\ t_fine # OwnTFine => (overlap /\ writer = 2)

\* with two callers interleaved: the chain computes with the t_fine of the
\* other caller's temperature()
C20_Witness ==
    /\ ChainReadsRefreshed /\ op = "pressure"
    /\ overlap /\ writer = 2 /\ t_fine # OwnTFine

(***************************************************************************)
(* The temperature formula and the worked example of the vendor datasheet. *)
(***************************************************************************)
\* temperature() has returned a value
TemperatureReturned == op = "temperature" /\ pc = "ret" /\ result.kind = "return"

\* with a = raw - 16 * T1:  var1 = a * T2 / 2^14,  var2 = a^2 * T3 / 2^34
FormulaTFine ==
    LET a == Dy(loc.adc_T[1] - 16 * D("T1"))
    IN DyAdd(DyShr(DyMul(a, Dy(D("T2"))), 14),
             DyShr(DyMul(DyMul(a, a), Dy(D("T3"))), 34))

\* the returned value r (in hundredths) is t_fine / 5120 rounded to two
\* places: |512 * r - 10 * t_fine| <= 256
RoundedQuotient ==
    LET diff == DySub(DyMul(Dy(result.val[1]), Dy(512)), DyMul(t_fine[1], Dy(10)))
    IN DyCmp(diff, Dy(256)) <= 0 /\ DyCmp(diff, Dy(-256)) >= 0

FormulaHolds == TemperatureReturned => (t_fine = <<FormulaTFine>> /\ RoundedQuotient)

\* the worked example: raw = 519888, T1 = 27504, T2 = 26435, T3 = -1000
WorkedExample ==
    /\ TemperatureReturned
    /\ loc.adc_T = <<519888>>
    /\ D("T1") = 27504 /\ D("T2") = 26435 /\ D("T3") = -1000

\* t_fine to two places, in hundredths
TFineHundredths == DyRound(DyMul(t_fine[1], Dy(100)))

\* C21 as stated: temperature() evaluates var1 = (raw/16384 - T1/1024)*T2,
\* var2 = (raw/131072 - T1/8192)^2 * T3, t_fine = var1 + var2 and returns
\* t_fine/5120 rounded to two places; in the worked example it returns 25.08
\* and leaves t_fine at about 128422.63.
C21_WorkedExample_63 ==
    /\ FormulaHolds
    /\ WorkedExample => (result.val[1] = 2508 /\ TFineHundredths = 12842263)

\* C21 amended: the same formula and rounding; in the worked example
\* temperature() returns 25.08 and leaves t_fine at about 128422.29
\* (var1 = 128793.18, var2 = -370.89).
C21_WorkedExample ==
    /\ FormulaHolds
    /\ WorkedExample => (result.val[1] = 2508 /\ TFineHundredths = 12842229)

C21_Witness == WorkedExample /\ result.val[1] = 2508 /\ tfAtCall = None

(***************************************************************************)
(* t_fine across reset(), calibrate() and failed reads.                    *)
(***************************************************************************)
\* pressure(update_temperature=False) called after a reset(), t_fine set
PressureAfterReset == op = "pressure" /\ ~upd /\ resetPending /\ tfAtCall # None

\* such a call reads no temperature sample and computes with the t_fine the
\* object held before the reset
ReusesTFine ==
    PressureAfterReset =>
        /\ t_fine = tfAtCall
        /\ ~TempReadInCall
        /\ (PressureChainRan /\ ~Var1Zero) => result.tf = tfAtCall[1]

\* C22: once t_fine is set no step unsets it (no reset(), no calibrate()
\* call, no failed bus read), and a pressure(update_temperature=False) call
\* after a reset() computes with the t_fine from before the reset.
C22_NeverUnset == [][t_fine # None => t_fine' # None]_vars /\ []ReusesTFine

C22_Witness ==
    /\ PressureAfterReset /\ PressureChainRan /\ ~Var1Zero
    /\ result.kind = "return" /\ result.tf = tfAtCall[1]

(***************************************************************************)
(* t_fine after a pressure() / humidity() call that failed on the bus.     *)
(***************************************************************************)
\* pressure() / humidity() has raised the bus error
FailedMeasure == Compensating /\ pc = "ret" /\ result = Raise("I2CError")

\* ... at the read of its raw sample, after the refresh of the same call
FailedAfterRefresh == FailedMeasure /\ loc.adc_T # None

\* C23 as stated: a pressure() or humidity() call that fails with a bus error
\* leaves t_fine as it was before the call, also when the raw-sample read
\* fails after the temperature refresh of the same call has succeeded.
C23_FailureRestores == FailedMeasure => t_fine = tfAtCall

\* C23 amended: a pressure() or humidity() call that fails at the read of the
\* temperature sample leaves t_fine as it was before the call; one that
\* fails at the read of its own raw sample after a refresh leaves t_fine at
\* the value the refresh computed; one that made no refresh leaves it as it
\* was.
C23_FailureKeepsRefresh ==
    FailedMeasure =>
        IF loc.adc_T = None THEN t_fine = tfAtCall ELSE t_fine = OwnTFine

C23_Witness ==
    /\ FailedAfterRefresh
    /\ tfAtCall # None /\ t_fine # tfAtCall /\ t_fine = OwnTFine

(***************************************************************************)
(* The register writes of set_acquisition_options.                         *)
(***************************************************************************)
\* a set_acquisition_options call has ended
OptionsEnded == op = "set_acquisition_options" /\ pc = "ret"

\* the transactions of the running call on the register reg
WritesTo(reg) == {i \in DOMAIN busLog : busLog[i].rw = "w" /\ busLog[i].reg = reg}

\* C24: in BME280.set_acquisition_options the write to CTRL_HUM (0xF2) comes
\* before the write to CTRL_MEAS (0xF4) of the same call, and every call
\* that has written CTRL_HUM goes on to write CTRL_MEAS (short of a bus
\* error), so that the humidity setting becomes active.
C24_HumThenMeas ==
    OptionsEnded =>
        /\ \A i \in WritesTo(CTRL_HUM), j \in WritesTo(CTRL_MEAS) : i < j
        /\ \A i \in WritesTo(CTRL_HUM) :
              busLog[i].ok => (result = Raise("I2CError") \/ WritesTo(CTRL_MEAS) # {})

\* C25: a set_acquisition_options call with an unsupported temperature,
\* pressure or humidity oversampling or an unknown mode raises BMP280Error /
\* BME280Error and makes no register write at all (neither CTRL_HUM nor
\* CTRL_MEAS).
C25_NoWriteOnError ==
    OptionsEnded =>
        /\ ~CtrlMeasValid(loc) => result = Raise("BMP280Error")
        /\ result = Raise("BMP280Error") => busLog = <<>>

(***************************************************************************)
(* set_config.                                                             *)
(***************************************************************************)
\* a set_config call has ended; its arguments are supported
ConfigEnded == op = "set_config" /\ pc = "ret"
SupportedConfig == Standby(variant, loc.args[1]) >= 0 /\ Filter(loc.args[2]) >= 0

\* (t_sb << 5) + (filter << 2) + spi3w_en for the arguments of the call
ConfigByte == Standby(variant, loc.args[1]) * 32 + Filter(loc.args[2]) * 4 + loc.args[3]

\* C26: set_config with a supported inactive time and a supported filter
\* constant completes without error (short of a bus error) and makes exactly
\* one transaction: the write of (t_sb << 5) + (filter << 2) + spi3w_en to
\* the CONFIG register 0xF5, on BMP280 and on BME280.
C26_ConfigWritten ==
    (ConfigEnded /\ SupportedConfig) =>
        \/ result = Return(<<>>) /\ busLog = <<Xfer("w", CONFIG, ConfigByte, TRUE)>>
        \/ result = Raise("I2CError") /\ busLog = <<Xfer("w", CONFIG, ConfigByte, FALSE)>>

(***************************************************************************)
(* The id property of the humidity variant.                                *)
(***************************************************************************)
\* a read of the id property of a BME280 object has ended
IdEnded == op = "id" /\ variant = "BME280" /\ pc = "ret"

\* C27: reading the id property of a BME280 object makes one byte read of
\* the ID register 0xD0 and, the read succeeding, returns the byte read
\* without raising.
C27_IdReturned ==
    IdEnded =>
        /\ Len(busLog) = 1 /\ busLog[1].rw = "r" /\ busLog[1].reg = ID /\ busLog[1].n = 1
        /\ busLog[1].ok => result = Return(loc.byte)
        /\ ~busLog[1].ok => result = Raise("I2CError")

(***************************************************************************)
(* PCF8574: buffered writes and the byte sent.                             *)
(***************************************************************************)
\* the step is a write(pin, val, update=False) call
BufferedWrite == pcf' # pcf /\ pcf'.call.name = "write" /\ ~pcf'.call.update

\* the last call was an update() or a write(..., update=True) that reached
\* the chip
SentBuffer ==
    /\ pcf.call.ok
    /\ pcf.call.name = "update" \/ (pcf.call.name = "write" /\ pcf.call.update)

\* C28: write(pin, val, update=False) changes only the buffered state of
\* that one pin and sends nothing; after an update() or a
\* write(..., update=True) the byte last written to the chip is list2byte
\* of the buffered pin list, whatever write, write_byte, write_all and
\* update calls came before.
C28_BufferThenSend ==
    /\ [][BufferedWrite =>
            /\ pcf'.wire = pcf.wire
            /\ pcf'.pins[pcf'.call.pin + 1] = (IF pcf'.call.val = 0 THEN 0 ELSE 1)
            /\ \A i \in 1..8 : i # pcf'.call.pin + 1 => pcf'.pins[i] = pcf.pins[i]]_vars
    /\ [](SentBuffer => (pcf.wire = <<list2byte(pcf.pins)>> /\ Len(pcf.pins) = 8))

\* an update() has sent pins that buffered writes had changed
C28_Witness ==
    /\ SentBuffer /\ pcf.call.name = "update" /\ pcf.call.flushed
    /\ pcf.wire = <<list2byte(pcf.pins)>> /\ pcf.pins[1] = 0 /\ pcf.pins[8] = 0

(***************************************************************************)
(* INA219: the ADC fields of the config word.                              *)
(***************************************************************************)
\* the SADC (bits 3..6) and BADC (bits 7..10) fields of a config word
SADC(word) == (word \div 8) % 16
BADC(word) == (word \div 128) % 16

\* the 4-bit field _config_set writes for a supported ADC setting
ADCField(value) == get_ADC(value) % 16

\* C29: two different supported ADC settings (9..12 bit modes, 2..128
\* sample modes) never give the same SADC or BADC field in the word
\* _config_set writes: the field in the CONFIG register identifies the
\* value held in _shuntADC, respectively _busADC.
C29_ADCFieldIdentifies ==
    ina.synced =>
        \A value \in SUPPORTED_ADC :
            /\ ADCField(value) = SADC(ina.config[1]) => value = ina.shuntADC
            /\ ADCField(value) = BADC(ina.config[1]) => value = ina.busADC

(***************************************************************************)
(* SN3218: the layout of the LED-enable bytes.                             *)
(***************************************************************************)
\* bit ((c - 1) mod 6) of byte ((c - 1) div 6) of the three bytes
LedBit(leds, c) == (leds[((c - 1) \div 6) + 1] \div (2 ^ ((c - 1) % 6))) % 2

\* the last call has written the three bytes
LedsWritten == sn.call.sent

\* the step is a channel_output call that wrote the bytes, after a call
\* that had written them too
OneChannelStep ==
    /\ sn' # sn /\ sn.call.sent
    /\ sn'.call.name = "channel_output" /\ sn'.call.sent

\* C30: after channel_output(channel, enable) or channel_mask(mask) the
\* three bytes written to the registers 0x13..0x15 use 6 bits each, and
\* bit ((c - 1) mod 6) of byte ((c - 1) div 6) is the enable state of
\* channel c, for c in 1..18; enabling or disabling one channel changes no
\* other channel's bit.
C30_LedLayout ==
    /\ [](LedsWritten =>
            /\ \A b \in 1..3 : sn.leds[b] \in 0..63
            /\ \A c \in 1..18 :
                  LedBit(sn.leds, c) = (IF sn.channel_enable[c + 1] = 0 THEN 0 ELSE 1))
    /\ [][OneChannelStep =>
            \A c \in 1..18 :
                c # sn'.call.channel => LedBit(sn'.leds, c) = LedBit(sn.leds, c)]_vars

=============================================================================
